---- MODULE Spec2Model ----
(***************************************************************************)
(* allennlp/fairness/debiasers.py: Debiaser, HardDebiaser, LinearDebiaser. *)
(*                                                                         *)
(* Tensor elements are exact rationals <<n, d>> in lowest terms, d >= 0.   *)
(* d = 0 encodes the non-finite values of the float arithmetic that the    *)
(* code can produce: <<0,0>> is not-a-number, <<1,0>> and <<-1,0>> are the *)
(* two infinities.  Rounding is not modelled.                              *)
(*                                                                         *)
(* A tensor is [err, shape, data]: shape a sequence of axis sizes, data    *)
(* the row-major flat sequence of elements.  err = TRUE is the raised      *)
(* RuntimeError of a torch operation whose operand shapes do not fit.      *)
(***************************************************************************)
EXTENDS Integers, Sequences, FiniteSets, TLC

\* ------------------------------------------------------------------ bounds
MaxDim == 2
MaxRank == 3
MaxNumel == 4
MaxApply == 2

\* ------------------------------------------------------- scalar arithmetic
Abs(x) == IF x < 0 THEN -x ELSE x

Sgn(x) == IF x > 0 THEN 1 ELSE IF x < 0 THEN -1 ELSE 0

RECURSIVE GCD(_, _)
GCD(a, b) == IF b = 0 THEN a ELSE GCD(b, a % b)

Norm(n, d) ==
    IF d = 0 THEN <<Sgn(n), 0>>
    ELSE LET g == GCD(Abs(n), d) IN <<n \div g, d \div g>>

NaN == <<0, 0>>

Zero == <<0, 1>>

Rat(n, d) == Norm(n, d)

IsFinite(a) == a[2] # 0

IsNaN(a) == a = NaN

RNeg(a) == <<-a[1], a[2]>>

RAdd(a, b) ==
    IF IsNaN(a) \/ IsNaN(b) THEN NaN
    ELSE IF ~IsFinite(a) /\ ~IsFinite(b) THEN (IF a = b THEN a ELSE NaN)
    ELSE IF ~IsFinite(a) THEN a
    ELSE IF ~IsFinite(b) THEN b
    ELSE Norm(a[1] * b[2] + b[1] * a[2], a[2] * b[2])

RSub(a, b) == RAdd(a, RNeg(b))

RMul(a, b) == Norm(a[1] * b[1], a[2] * b[2])

Recip(a) ==
    IF a[1] = 0 THEN (IF a[2] = 0 THEN NaN ELSE <<1, 0>>)
    ELSE IF a[1] > 0 THEN <<a[2], a[1]>>
    ELSE <<-a[2], -a[1]>>

RDiv(a, b) == RMul(a, Recip(b))

\* ------------------------------------------------------------ tensor shapes
RECURSIVE Prod(_)
Prod(s) == IF s = <<>> THEN 1 ELSE Head(s) * Prod(Tail(s))

\* number of elements one step along axis k spans
Stride(s, k) == Prod(SubSeq(s, k + 1, Len(s)))

\* coordinate on axis k of the element at 0-based flat position i
Coord(s, i, k) == (i \div Stride(s, k)) % s[k]

Raised == [err |-> TRUE, shape |-> <<>>, data |-> <<>>]

Tensor(s, d) == [err |-> FALSE, shape |-> s, data |-> d]

Last(s) == s[Len(s)]

Max(a, b) == IF a >= b THEN a ELSE b

\* size of axis j of the rank-r alignment of shape s (missing leading axes are 1)
Aligned(s, r, j) == IF j > r - Len(s) THEN s[j - (r - Len(s))] ELSE 1

Broadcastable(s1, s2) ==
    LET r == Max(Len(s1), Len(s2))
    IN \A j \in 1..r :
          \/ Aligned(s1, r, j) = Aligned(s2, r, j)
          \/ Aligned(s1, r, j) = 1
          \/ Aligned(s2, r, j) = 1

BroadcastShape(s1, s2) ==
    LET r == Max(Len(s1), Len(s2))
    IN [j \in 1..r |-> Max(Aligned(s1, r, j), Aligned(s2, r, j))]

RECURSIVE SrcOffset(_, _, _, _)
\* 0-based flat position in an operand of shape s of the element that is
\* broadcast to 0-based flat position i of the result of shape S
SrcOffset(s, S, i, k) ==
    IF k > Len(s) THEN 0
    ELSE (IF s[k] = 1 THEN 0 ELSE Coord(S, i, k + Len(S) - Len(s)) * Stride(s, k))
         + SrcOffset(s, S, i, k + 1)

BroadcastAt(x, S, i) == x.data[SrcOffset(x.shape, S, i, 1) + 1]

\* ---------------------------------------------------------- torch operations
RECURSIVE SumProd(_, _, _, _, _, _)
\* sum over i in 0..n-1 of a[oa + i] * b[ob + i * sb]   (0-based offsets)
SumProd(a, oa, b, ob, sb, n) ==
    IF n = 0 THEN Zero
    ELSE RAdd(SumProd(a, oa, b, ob, sb, n - 1),
              RMul(a[oa + n], b[ob + (n - 1) * sb + 1]))

\* bias_direction.reshape(-1, 1)
Reshape(x) == IF x.err THEN Raised ELSE Tensor(<<Prod(x.shape), 1>>, x.data)

\* the scalar operation behind +, -, * and / on tensors
Apply(op, a, b) ==
    CASE op = "add" -> RAdd(a, b)
      [] op = "sub" -> RSub(a, b)
      [] op = "mul" -> RMul(a, b)
      [] op = "div" -> RDiv(a, b)

\* an elementwise binary operation with broadcasting
Elementwise(op, x, y) ==
    IF x.err \/ y.err THEN Raised
    ELSE IF ~Broadcastable(x.shape, y.shape) THEN Raised
    ELSE LET S == BroadcastShape(x.shape, y.shape)
         IN Tensor(S, [i \in 1..Prod(S) |->
                         Apply(op, BroadcastAt(x, S, i - 1), BroadcastAt(y, S, i - 1))])

Mul(x, y) == Elementwise("mul", x, y)

Div(x, y) == Elementwise("div", x, y)

Sub(x, y) == Elementwise("sub", x, y)

\* a product that multiplies elementwise with broadcasting and sums the last axis
Matmul_broadcasting(a, m) ==
    IF a.err \/ m.err \/ Len(a.shape) = 0 \/ Len(m.shape) # 2 THEN Raised
    ELSE LET x == Elementwise("mul", a, Tensor(<<m.shape[1]>>, m.data))
         IN IF x.err THEN Raised
            ELSE LET n == Last(x.shape)
                     rows == Prod(x.shape) \div n
                     out == IF Len(a.shape) = 1 THEN <<1>>
                            ELSE SubSeq(x.shape, 1, Len(x.shape) - 1) \o <<1>>
                 IN Tensor(out, [i \in 1..rows |->
                                   SumProd(x.data, (i - 1) * n, [j \in 1..n |-> Rat(1, 1)], 0, 1, n)])

\* torch.matmul(a, m) for a 2-D m of shape (k, p): a 1-D a of length n is a row
\* vector and gives shape (p); an a of shape (..., n) gives (..., p); n # k raises
Matmul(a, m) ==
    IF a.err \/ m.err \/ Len(a.shape) = 0 \/ Len(m.shape) # 2 THEN Raised
    ELSE LET n == a.shape[Len(a.shape)]
             k == m.shape[1]
             p == m.shape[2]
             rows == Prod(a.shape) \div n
             out == IF Len(a.shape) = 1 THEN <<p>>
                    ELSE SubSeq(a.shape, 1, Len(a.shape) - 1) \o <<p>>
         IN IF n # k THEN Raised
            ELSE Tensor(out,
                   [i \in 1..(rows * p) |->
                      SumProd(a.data, ((i - 1) \div p) * n, m.data, (i - 1) % p, p, n)])

\* torch.dot(x, y): both 1-D with the same number of elements; a 0-D result
Dot(x, y) ==
    IF x.err \/ y.err \/ Len(x.shape) # 1 \/ Len(y.shape) # 1 THEN Raised
    ELSE IF x.shape # y.shape THEN Raised
    ELSE Tensor(<<>>, <<SumProd(x.data, 0, y.data, 0, 1, x.shape[1])>>)

\* ------------------------------------------------------------- the debiasers
Debiaser_init(args) == IF args = <<>> THEN FALSE ELSE args[1]

\* HardDebiaser.forward without the division by dot(b, b)
HardDebiaser_forward_unnormalised(e, b) ==
    Sub(e, Mul(Matmul(e, Reshape(b)), b))

\* HardDebiaser.forward returning the embeddings when dot(b, b) is zero
HardDebiaser_forward_guarded(e, b) ==
    IF Dot(b, b) = Tensor(<<>>, <<Zero>>) THEN e
    ELSE Sub(e, Div(Mul(Matmul(e, Reshape(b)), b), Dot(b, b)))

HardDebiaser_forward(e, b) ==
    Sub(e, Div(Mul(Matmul(e, Reshape(b)), b), Dot(b, b)))

\* LinearDebiaser.forward adding the component instead of removing it
LinearDebiaser_forward_plus(e, b) ==
    Elementwise("add", e, Mul(Matmul(e, Reshape(b)), b))

\* LinearDebiaser.forward with matmul(embeddings, bias_direction), no reshape:
\* the product loses the last axis
LinearDebiaser_forward_noreshape(e, b) ==
    LET m == Matmul(e, Reshape(b))
        v == IF m.err THEN Raised
             ELSE Tensor(SubSeq(e.shape, 1, Len(e.shape) - 1), m.data)
    IN Sub(e, Mul(v, b))

LinearDebiaser_forward(e, b) ==
    Sub(e, Mul(Matmul(e, Reshape(b)), b))

Forward(k, e, b) ==
    IF k = "HardDebiaser" THEN HardDebiaser_forward(e, b)
    ELSE LinearDebiaser_forward(e, b)

\* a forward that skips the computation when gradients are not tracked
Compute_skipsWithoutGrad(k, e, b, grad) ==
    LET r == IF grad THEN Forward(k, e, b) ELSE e
    IN [status |-> IF r.err THEN "raised" ELSE "returned",
        value |-> r,
        grad_fn |-> grad /\ ~r.err]

\* what one evaluation of the body of the with statement leaves behind: the
\* value or the raised error, and whether autograd recorded the computation
Compute(k, e, b, grad) ==
    LET r == Forward(k, e, b)
    IN [status |-> IF r.err THEN "raised" ELSE "returned",
        value |-> r,
        grad_fn |-> grad /\ ~r.err]

\* ------------------------------------------------------------------- inputs
Kinds == {"HardDebiaser", "LinearDebiaser"}

Instances == {"d1", "d2"}

Threads == {"t1", "t2"}

CtorArgs == {<<>>, <<TRUE>>, <<FALSE>>}

EVals == {Rat(0, 1), Rat(1, 1), Rat(-3, 2)}

BVals == {Rat(0, 1), Rat(1, 1), Rat(-3, 5), Rat(4, 5)}

Shapes ==
    {s \in UNION {[1..r -> 1..MaxDim] : r \in 1..MaxRank} : Prod(s) <= MaxNumel}

AllEmbeddings ==
    UNION {{Tensor(s, d) : d \in [1..Prod(s) -> EVals]} : s \in Shapes}

AllBiasDirections ==
    UNION {{Tensor(<<n>>, d) : d \in [1..n -> BVals]} : n \in 1..MaxDim}

Fill(n, v) == Tensor(<<n>>, [i \in 1..n |-> v])

\* every pair whose shapes fit; a bias_direction of another length is all ones
\* or all zeros
Inputs ==
    {p \in AllEmbeddings \X AllBiasDirections :
        \/ Last(p[1].shape) = p[2].shape[1]
        \/ p[2] \in {Fill(p[2].shape[1], Rat(1, 1)), Fill(p[2].shape[1], Rat(0, 1))}}

Ints(s) == [i \in 1..Len(s) |-> Rat(s[i], 1)]

ScenarioEmbeddings ==
    {Tensor(<<2>>, Ints(<<3, 4>>)),
     Tensor(<<2, 2>>, Ints(<<1, 0, 0, 1>>)),
     Tensor(<<1, 3>>, Ints(<<1, 2, 3>>))}

ScenarioBiasDirections ==
    {Tensor(<<2>>, Ints(<<1, 0>>)),
     Tensor(<<2>>, Ints(<<1, 1>>)),
     Tensor(<<2>>, Ints(<<0, 0>>))}

\* -------------------------------------------------------------------- state
VARIABLES
    kind,            \* instance -> its class
    ctor_args,       \* instance -> the arguments its constructor was given
    requires_grad,   \* instance -> self.requires_grad
    embeddings,      \* the caller's embeddings array
    bias_direction,  \* the caller's bias_direction array
    callers,         \* the threads that call forward
    ambient,         \* thread -> its gradient mode before any call
    grad_enabled,    \* thread -> torch.is_grad_enabled(), thread-local
    pc,              \* thread -> "idle", "enter", "body", "exit"
    self,            \* thread -> the instance of its current or last call
    prev,            \* thread -> the mode set_grad_enabled saved
    arg,             \* thread -> the embeddings argument of the call
    held,            \* thread -> the caller's arrays as they were at the call
    outcome,         \* thread -> result of the current or last call
    applied          \* thread -> times forward was applied in turn to the array

vars == <<kind, ctor_args, requires_grad, embeddings, bias_direction, callers,
          ambient, grad_enabled, pc, self, prev, arg, held, outcome, applied>>

NoTensor == Tensor(<<>>, <<>>)

NoOutcome == [status |-> "none", value |-> NoTensor, grad_fn |-> FALSE]

InitFrames ==
    /\ pc = [t \in Threads |-> "idle"]
    /\ self = [t \in Threads |-> "none"]
    /\ prev = [t \in Threads |-> FALSE]
    /\ arg = [t \in Threads |-> NoTensor]
    /\ held = [t \in Threads |-> [embeddings |-> NoTensor, bias_direction |-> NoTensor]]
    /\ outcome = [t \in Threads |-> NoOutcome]
    /\ applied = [t \in Threads |-> 0]

\* two threads share two instances and the arrays of one scenario
Init ==
    /\ kind \in [Instances -> Kinds]
    /\ ctor_args \in [Instances -> CtorArgs]
    /\ requires_grad = [d \in Instances |-> Debiaser_init(ctor_args[d])]
    /\ embeddings \in ScenarioEmbeddings
    /\ bias_direction \in ScenarioBiasDirections
    /\ callers = Threads
    /\ ambient \in [Threads -> BOOLEAN]
    /\ grad_enabled = ambient
    /\ InitFrames

\* one caller, one instance of each class, every input within the bounds and
\* the scenarios
InitFn ==
    /\ kind = [d \in Instances |-> IF d = "d1" THEN "HardDebiaser" ELSE "LinearDebiaser"]
    /\ ctor_args = [d \in Instances |-> <<>>]
    /\ requires_grad = [d \in Instances |-> Debiaser_init(ctor_args[d])]
    /\ \E p \in Inputs \cup (ScenarioEmbeddings \X ScenarioBiasDirections) :
          embeddings = p[1] /\ bias_direction = p[2]
    /\ callers = {"t1"}
    /\ ambient = [t \in Threads |-> TRUE]
    /\ grad_enabled = ambient
    /\ InitFrames

\* ------------------------------------------------------------------ actions
\* the caller passes its arrays to d.forward
Call(t, d) ==
    /\ t \in callers
    /\ pc[t] = "idle"
    /\ pc' = [pc EXCEPT ![t] = "enter"]
    /\ self' = [self EXCEPT ![t] = d]
    /\ arg' = [arg EXCEPT ![t] = embeddings]
    /\ held' = [held EXCEPT ![t] = [embeddings |-> embeddings,
                                    bias_direction |-> bias_direction]]
    /\ outcome' = [outcome EXCEPT ![t] = NoOutcome]
    /\ applied' = [applied EXCEPT ![t] = 1]
    /\ UNCHANGED <<kind, ctor_args, requires_grad, embeddings, bias_direction,
                   callers, ambient, grad_enabled, prev>>

\* the caller passes the result of its last call to the same instance again,
\* with the same bias_direction
Reapply(t) ==
    /\ t \in callers
    /\ pc[t] = "idle"
    /\ outcome[t].status = "returned"
    /\ applied[t] < MaxApply
    /\ pc' = [pc EXCEPT ![t] = "enter"]
    /\ arg' = [arg EXCEPT ![t] = outcome[t].value]
    /\ outcome' = [outcome EXCEPT ![t] = NoOutcome]
    /\ applied' = [applied EXCEPT ![t] = applied[t] + 1]
    /\ UNCHANGED <<kind, ctor_args, requires_grad, embeddings, bias_direction,
                   callers, ambient, grad_enabled, self, prev, held>>

\* torch.set_grad_enabled(self.requires_grad): saves the mode and sets it
SetGradEnabled(t) ==
    /\ pc[t] = "enter"
    /\ prev' = [prev EXCEPT ![t] = grad_enabled[t]]
    /\ grad_enabled' = [grad_enabled EXCEPT ![t] = requires_grad[self[t]]]
    /\ pc' = [pc EXCEPT ![t] = "body"]
    /\ UNCHANGED <<kind, ctor_args, requires_grad, embeddings, bias_direction,
                   callers, ambient, self, arg, held, outcome, applied>>

\* the return expression with an in-place subtraction, embeddings -= ...
Body_inplace(t) ==
    LET r == Compute(kind[self[t]], arg[t], bias_direction, grad_enabled[t])
    IN /\ pc[t] = "body"
       /\ outcome' = [outcome EXCEPT ![t] = r]
       /\ embeddings' = IF r.status = "returned" /\ applied[t] = 1 THEN r.value
                        ELSE embeddings
       /\ pc' = [pc EXCEPT ![t] = "exit"]
       /\ UNCHANGED <<kind, ctor_args, requires_grad, bias_direction,
                      callers, ambient, grad_enabled, self, prev, arg, held, applied>>

\* the return expression: every operation makes a new tensor
Body(t) ==
    /\ pc[t] = "body"
    /\ outcome' = [outcome EXCEPT ![t] =
                     Compute(kind[self[t]], arg[t], bias_direction, grad_enabled[t])]
    /\ pc' = [pc EXCEPT ![t] = "exit"]
    /\ UNCHANGED <<kind, ctor_args, requires_grad, embeddings, bias_direction,
                   callers, ambient, grad_enabled, self, prev, arg, held, applied>>

\* a restore that runs after a return only, not when the body raises
Exit_onReturnOnly(t) ==
    /\ pc[t] = "exit"
    /\ grad_enabled' = [grad_enabled EXCEPT ![t] =
                          IF outcome[t].status = "returned" THEN prev[t] ELSE @]
    /\ pc' = [pc EXCEPT ![t] = "idle"]
    /\ UNCHANGED <<kind, ctor_args, requires_grad, embeddings, bias_direction,
                   callers, ambient, self, prev, arg, held, outcome, applied>>

\* set_grad_enabled.__exit__, on return and on raise alike
Exit(t) ==
    /\ pc[t] = "exit"
    /\ grad_enabled' = [grad_enabled EXCEPT ![t] = prev[t]]
    /\ pc' = [pc EXCEPT ![t] = "idle"]
    /\ UNCHANGED <<kind, ctor_args, requires_grad, embeddings, bias_direction,
                   callers, ambient, self, prev, arg, held, outcome, applied>>

Step(t) == SetGradEnabled(t) \/ Body(t) \/ Exit(t)

Next == \E t \in Threads : (\E d \in Instances : Call(t, d)) \/ Step(t)

NextFn ==
    \E t \in Threads :
        \/ \E d \in Instances : Call(t, d)
        \/ Reapply(t)
        \/ Step(t)

Spec == Init /\ [][Next]_vars

SpecFn == InitFn /\ [][NextFn]_vars

\* ------------------------------------------------------------------- claims
\* thread t's call of forward has ended
Done(t) == pc[t] = "idle" /\ self[t] # "none"

Returned(t) == Done(t) /\ outcome[t].status = "returned"

KindOf(t) == kind[self[t]]

Fits(e, b) == Len(e.shape) >= 1 /\ Last(e.shape) = b.shape[1]

NormSq(b) == SumProd(b.data, 0, b.data, 0, 1, b.shape[1])

IsZeroVector(b) == \A i \in 1..Len(b.data) : b.data[i] = Zero

\* the inner product with b of the r-th vector (0-based) of x
RowDot(x, b, r) == SumProd(x.data, r * b.shape[1], b.data, 0, 1, b.shape[1])

Rows(x) == 0..((Prod(x.shape) \div Last(x.shape)) - 1)

OrthogonalTo(x, b) == \A r \in Rows(x) : RowDot(x, b, r) = Zero

\* C1: for every embeddings e and every nonzero bias_direction b of matching
\* length, unit or not, HardDebiaser.forward(e, b) returns and every vector of
\* the result has zero inner product with b.
C1_HardRemovesComponent ==
    \A t \in callers :
        (Done(t) /\ KindOf(t) = "HardDebiaser" /\ Fits(arg[t], bias_direction)
            /\ ~IsZeroVector(bias_direction))
        => /\ outcome[t].status = "returned"
           /\ OrthogonalTo(outcome[t].value, bias_direction)

C1_Witness ==
    /\ Returned("t1") /\ KindOf("t1") = "HardDebiaser"
    /\ applied["t1"] = 1
    /\ Len(arg["t1"].shape) = 3
    /\ NormSq(bias_direction) \notin {Zero, Rat(1, 1)}
    /\ \A r \in Rows(arg["t1"]) : RowDot(arg["t1"], bias_direction, r) # Zero
    /\ OrthogonalTo(outcome["t1"].value, bias_direction)

\* C2: for every embeddings e and every bias_direction b of matching length
\* with b.b = 1, LinearDebiaser.forward(e, b) returns and every vector of the
\* result has zero inner product with b.
C2_LinearRemovesComponentOfUnit ==
    \A t \in callers :
        (Done(t) /\ KindOf(t) = "LinearDebiaser" /\ Fits(arg[t], bias_direction)
            /\ NormSq(bias_direction) = Rat(1, 1))
        => /\ outcome[t].status = "returned"
           /\ OrthogonalTo(outcome[t].value, bias_direction)

C2_Witness ==
    /\ Returned("t1") /\ KindOf("t1") = "LinearDebiaser"
    /\ applied["t1"] = 1
    /\ bias_direction = Tensor(<<2>>, <<Rat(-3, 5), Rat(4, 5)>>)
    /\ Len(arg["t1"].shape) = 2
    /\ \A r \in Rows(arg["t1"]) : RowDot(arg["t1"], bias_direction, r) # Zero
    /\ OrthogonalTo(outcome["t1"].value, bias_direction)

\* C3 as claimed: for either debiaser and every bias_direction b of matching
\* length (nonzero for HardDebiaser), forward(forward(e, b), b) = forward(e, b).
C3_IdempotentAnyDirection ==
    \A t \in callers :
        (Returned(t) /\ applied[t] >= 2
            /\ (KindOf(t) = "HardDebiaser" => ~IsZeroVector(bias_direction)))
        => outcome[t].value = arg[t]

\* C3 amended: forward(forward(e, b), b) = forward(e, b) for HardDebiaser with
\* every nonzero b, and for LinearDebiaser with every b such that b.b = 1.
C3_Idempotent ==
    \A t \in callers :
        (Done(t) /\ applied[t] >= 2
            /\ (KindOf(t) = "HardDebiaser" => ~IsZeroVector(bias_direction))
            /\ (KindOf(t) = "LinearDebiaser" => NormSq(bias_direction) = Rat(1, 1)))
        => /\ outcome[t].status = "returned"
           /\ outcome[t].value = arg[t]

C3_Witness ==
    /\ Returned("t1") /\ applied["t1"] = 2
    /\ KindOf("t1") = "LinearDebiaser"
    /\ bias_direction = Tensor(<<2>>, <<Rat(-3, 5), Rat(4, 5)>>)
    /\ arg["t1"] # held["t1"].embeddings
    /\ outcome["t1"].value = arg["t1"]

\* the result of the call on t if it was made on class k, else what class k
\* gives for the same arguments
ResultOf(t, k) ==
    IF KindOf(t) = k THEN outcome[t].value ELSE Forward(k, arg[t], bias_direction)

Halves(s) == [i \in 1..Len(s) |-> Rat(s[i], 2)]

\* x - y = c * (e . b) b, vector by vector, for x, y and e of one shape
RemovedIs(x, y, e, b, c) ==
    LET n == b.shape[1]
    IN /\ x.shape = e.shape /\ y.shape = e.shape
       /\ Len(x.data) = Len(e.data) /\ Len(y.data) = Len(e.data)
       /\ \A r \in Rows(e) :
             \A d \in {RowDot(e, b, r)} :
                \A j \in 1..n :
                   RSub(x.data[r * n + j], y.data[r * n + j])
                      = RMul(c, RMul(d, b.data[j]))

\* C4: for every e and nonzero b of matching length, e - Linear.forward(e, b)
\* is (e . b) b and e - Hard.forward(e, b) is that divided by b . b; so the
\* two results are equal when b . b = 1, and for e = [[1,0],[0,1]], b = [1,1]
\* Hard gives [[0.5,-0.5],[-0.5,0.5]] and Linear gives [[0,-1],[-1,0]].
C4_HardIsLinearNormalised ==
    \A t \in callers :
        (Done(t) /\ applied[t] = 1 /\ Fits(arg[t], bias_direction)
            /\ ~IsZeroVector(bias_direction))
        => /\ outcome[t].status = "returned"
           /\ \A h \in {ResultOf(t, "HardDebiaser")} :
              \A l \in {ResultOf(t, "LinearDebiaser")} :
                 /\ RemovedIs(arg[t], l, arg[t], bias_direction, Rat(1, 1))
                 /\ RemovedIs(arg[t], h, arg[t], bias_direction,
                              Recip(NormSq(bias_direction)))
                 /\ (NormSq(bias_direction) = Rat(1, 1) => h = l)
                 /\ (/\ arg[t] = Tensor(<<2, 2>>, Ints(<<1, 0, 0, 1>>))
                     /\ bias_direction = Tensor(<<2>>, Ints(<<1, 1>>)))
                    => /\ h = Tensor(<<2, 2>>, Halves(<<1, -1, -1, 1>>))
                       /\ l = Tensor(<<2, 2>>, Ints(<<0, -1, -1, 0>>))

C4_Witness ==
    /\ Returned("t1") /\ KindOf("t1") = "HardDebiaser"
    /\ arg["t1"] = Tensor(<<2, 2>>, Ints(<<1, 0, 0, 1>>))
    /\ bias_direction = Tensor(<<2>>, Ints(<<1, 1>>))
    /\ outcome["t1"].value = Tensor(<<2, 2>>, Halves(<<1, -1, -1, 1>>))

\* C5: for both debiasers and embeddings of any rank >= 1, when the trailing
\* dimension of embeddings differs from the length of bias_direction the call
\* raises and returns no result.
C5_MismatchRaises ==
    \A t \in callers :
        (Done(t) /\ ~Fits(arg[t], bias_direction))
        => /\ outcome[t].status = "raised"
           /\ outcome[t].value = Raised

C5_Witness ==
    /\ Done("t1") /\ KindOf("t1") = "LinearDebiaser"
    /\ arg["t1"].shape = <<1, 3>>
    /\ bias_direction.shape = <<2>>
    /\ outcome["t1"].status = "raised"

\* C6: HardDebiaser.forward with an all-zero bias_direction of matching length
\* raises nothing and returns a result of the embeddings' shape whose every
\* entry is not-a-number, also when the embeddings are all zero.
C6_ZeroDirectionGivesNaN ==
    \A t \in callers :
        (Done(t) /\ KindOf(t) = "HardDebiaser" /\ Fits(arg[t], bias_direction)
            /\ IsZeroVector(bias_direction))
        => /\ outcome[t].status = "returned"
           /\ Len(outcome[t].value.data) = Prod(arg[t].shape)
           /\ \A i \in 1..Len(outcome[t].value.data) : IsNaN(outcome[t].value.data[i])

C6_Witness ==
    /\ Returned("t1") /\ KindOf("t1") = "HardDebiaser"
    /\ applied["t1"] = 1
    /\ arg["t1"].shape = <<2, 2>>
    /\ IsZeroVector(arg["t1"]) /\ IsZeroVector(bias_direction)
    /\ \A i \in 1..4 : IsNaN(outcome["t1"].value.data[i])

\* C7: for both debiasers and every embeddings of shape (..., dim), a single
\* vector and dim = 1 included, with a bias_direction of length dim, the
\* result of forward has the shape of the embeddings.
C7_ShapePreserved ==
    \A t \in callers :
        (Done(t) /\ Fits(arg[t], bias_direction))
        => /\ outcome[t].status = "returned"
           /\ outcome[t].value.shape = arg[t].shape
           /\ Len(outcome[t].value.data) = Prod(arg[t].shape)

C7_Witness ==
    /\ Returned("t1") /\ KindOf("t1") = "LinearDebiaser"
    /\ arg["t1"].shape = <<2, 1>>
    /\ bias_direction.shape = <<1>>
    /\ outcome["t1"].value.shape = <<2, 1>>

\* C8: for either debiaser and either mode before the call, the gradient mode
\* while the body of forward runs is the instance's requires_grad, and once
\* forward has ended, by returning or by raising, the mode is again the one
\* that held before the call, after any sequence of calls.
C8_GradModeScoped ==
    \A t \in Threads :
        /\ pc[t] \in {"body", "exit"} => grad_enabled[t] = requires_grad[self[t]]
        /\ (pc[t] = "exit" /\ outcome[t].status = "returned")
               => outcome[t].grad_fn = requires_grad[self[t]]
        /\ pc[t] \in {"idle", "enter"} => grad_enabled[t] = ambient[t]

C8_Witness ==
    /\ Done("t1") /\ outcome["t1"].status = "raised"
    /\ requires_grad[self["t1"]] # ambient["t1"]
    /\ grad_enabled["t1"] = ambient["t1"]
    /\ pc["t2"] = "exit" /\ outcome["t2"].status = "raised"
    /\ requires_grad[self["t2"]] # requires_grad[self["t1"]]
    /\ grad_enabled["t2"] # ambient["t2"]

\* C9: two calls on the same class with equal embeddings and equal
\* bias_direction end alike, with equal values, whatever the requires_grad of
\* the instances, the gradient modes of the callers and the calls made before.
C9_ResultIgnoresGrad ==
    \A t, u \in Threads :
        (Done(t) /\ Done(u) /\ KindOf(t) = KindOf(u) /\ arg[t] = arg[u]
            /\ held[t].bias_direction = held[u].bias_direction)
        => /\ outcome[t].status = outcome[u].status
           /\ outcome[t].value = outcome[u].value

C9_Witness ==
    /\ Returned("t1") /\ Returned("t2")
    /\ KindOf("t1") = "HardDebiaser" /\ KindOf("t2") = "HardDebiaser"
    /\ requires_grad[self["t1"]] /\ ~requires_grad[self["t2"]]
    /\ ~ambient["t1"] /\ ambient["t2"]
    /\ outcome["t1"].grad_fn /\ ~outcome["t2"].grad_fn
    /\ outcome["t1"].value = outcome["t2"].value
    /\ outcome["t1"].value # arg["t1"]

\* C10: an instance's requires_grad is the value its constructor was given,
\* False when none was given, and stays so; and during and after every call,
\* returning or raising, on one instance or several, the caller's embeddings
\* and bias_direction hold the values they held when the call was made.
C10_NothingMutated ==
    /\ \A d \in Instances :
          requires_grad[d] = (IF Len(ctor_args[d]) = 0 THEN FALSE ELSE ctor_args[d][1])
    /\ \A t \in Threads :
          self[t] # "none" => /\ embeddings = held[t].embeddings
                              /\ bias_direction = held[t].bias_direction

C10_Witness ==
    /\ Returned("t1") /\ Returned("t2")
    /\ self["t1"] = self["t2"]
    /\ ctor_args[self["t1"]] = <<TRUE>> /\ requires_grad[self["t1"]]
    /\ \E d \in Instances : ctor_args[d] = <<>> /\ ~requires_grad[d]
    /\ outcome["t1"].value # embeddings
    /\ embeddings = held["t1"].embeddings

====
